---- MODULE Spec2Model ----
\* A model of the FCC public-file tracker scripts: the batch scripts chained
\* by file names, the RSS collector, the record classifier of
\* tag_and_clean_data.py, the sponsor normalisation of standardize_sponsors.py
\* and the field projection of create_minimal_json.py.
\*
\* Python strings are modelled as sequences of one-character strings, so that
\* splitting, case conversion and regular-expression matching are computed
\* character by character.  None is the one-element sequence <<"None">>, which
\* is no character sequence; a JSON number is <<"int">> followed by its digits.
EXTENDS Integers, Sequences, FiniteSets, TLC

\* ------------------------------------------------------------------------
\* Characters and Python's str methods
\* ------------------------------------------------------------------------
None == <<"None">>

LowerLetters == <<"a","b","c","d","e","f","g","h","i","j","k","l","m","n","o","p","q","r","s","t","u","v","w","x","y","z">>
UpperLetters == <<"A","B","C","D","E","F","G","H","I","J","K","L","M","N","O","P","Q","R","S","T","U","V","W","X","Y","Z">>
LowerSet == {LowerLetters[i] : i \in 1..26}
UpperSet == {UpperLetters[i] : i \in 1..26}
LetterSet == LowerSet \cup UpperSet
DigitSet == {"0","1","2","3","4","5","6","7","8","9"}
SpaceSet == {" ", "\t", "\n"}
WordSet == LetterSet \cup DigitSet \cup {"_"}

Max(S) == CHOOSE x \in S : \A y \in S : y <= x
Min(S) == CHOOSE x \in S : \A y \in S : x <= y

LetterIndex(c) == CHOOSE i \in 1..26 : LowerLetters[i] = c \/ UpperLetters[i] = c
LowerCh(c) == IF c \in UpperSet THEN LowerLetters[LetterIndex(c)] ELSE c
UpperCh(c) == IF c \in LowerSet THEN UpperLetters[LetterIndex(c)] ELSE c

\* str.lower(), str.upper()
Lower(s) == [i \in 1..Len(s) |-> LowerCh(s[i])]
Upper(s) == [i \in 1..Len(s) |-> UpperCh(s[i])]

\* str.title(): a letter that follows a letter is lowered, any other letter
\* is raised, other characters are kept.
Title(s) == [i \in 1..Len(s) |->
               IF s[i] \notin LetterSet THEN s[i]
               ELSE IF i > 1 /\ s[i-1] \in LetterSet THEN LowerCh(s[i])
               ELSE UpperCh(s[i])]

\* s[a:b] with 1-based inclusive bounds
Slice(s, a, b) == IF a > b THEN <<>> ELSE SubSeq(s, a, b)

\* str.strip(chars) / str.strip()
StripChars(s, chars) ==
  LET keep == {i \in 1..Len(s) : s[i] \notin chars}
  IN IF keep = {} THEN <<>> ELSE Slice(s, Min(keep), Max(keep))
Strip(s) == StripChars(s, SpaceSet)

\* s.startswith(p) and the test  p in s
StartsWithAt(s, p, i) == i + Len(p) - 1 <= Len(s) /\ \A j \in 1..Len(p) : s[i + j - 1] = p[j]
StartsWith(s, p) == StartsWithAt(s, p, 1)
Contains(s, p) == \E i \in 1..(Len(s) + 1) : StartsWithAt(s, p, i)

\* the positions of s where p occurs
Occurrences(s, p) == {j \in 1..(Len(s) + 1) : StartsWithAt(s, p, j)}

\* s.split(sep) for a non-empty sep: the pieces between the occurrences of
\* sep, taken from left to right without overlap; occ is Occurrences(s, sep)
RECURSIVE SplitFrom(_, _, _, _)
SplitFrom(s, sep, occ, i) ==
  LET next == {j \in occ : j >= i}
  IN IF next = {} THEN << Slice(s, i, Len(s)) >>
     ELSE << Slice(s, i, Min(next) - 1) >> \o SplitFrom(s, sep, occ, Min(next) + Len(sep))
Split(s, sep) == SplitFrom(s, sep, Occurrences(s, sep), 1)

\* s.split(): the maximal runs of non-whitespace characters
RECURSIVE WordsFrom(_, _)
WordsFrom(s, i) ==
  LET starts == {j \in i..Len(s) : s[j] \notin SpaceSet}
  IN IF starts = {} THEN <<>>
     ELSE LET b == Min(starts)
              stops == {j \in b..Len(s) : s[j] \in SpaceSet}
              e == IF stops = {} THEN Len(s) ELSE Min(stops) - 1
          IN << Slice(s, b, e) >> \o WordsFrom(s, e + 1)
Words(s) == WordsFrom(s, 1)

\* sep.join(parts)
RECURSIVE Join(_, _)
Join(parts, sep) ==
  IF Len(parts) = 0 THEN <<>>
  ELSE IF Len(parts) = 1 THEN parts[1]
  ELSE parts[1] \o sep \o Join(Tail(parts), sep)

\* s.replace(old, new) for a non-empty old: the occurrences are taken from
\* left to right, without overlap; occ is Occurrences(s, old)
RECURSIVE ReplaceFrom(_, _, _, _, _)
ReplaceFrom(s, old, new, occ, i) ==
  LET next == {j \in occ : j >= i}
  IN IF next = {} THEN Slice(s, i, Len(s))
     ELSE Slice(s, i, Min(next) - 1) \o new \o ReplaceFrom(s, old, new, occ, Min(next) + Len(old))
Replace(s, old, new) == ReplaceFrom(s, old, new, Occurrences(s, old), 1)

\* s.isdigit()
IsDigitStr(s) == Len(s) > 0 /\ \A i \in 1..Len(s) : s[i] \in DigitSet

\* Python truthiness of an optional string
Truthy(v) == v # None /\ v # <<>>

\* ------------------------------------------------------------------------
\* Regular expressions (module re).  A pattern is a sequence of items: a
\* character class with a repetition range (greedy, backtracking), a word
\* boundary \b, or the lookbehind (?<!^).
\* ------------------------------------------------------------------------
Item(kind, cls, lo, hi, str) == [kind |-> kind, cls |-> cls, min |-> lo, max |-> hi, str |-> str]
Rep(cls, lo, hi) == Item("cls", cls, lo, hi, <<>>)
\* a repetition of the characters outside cls
RepNot(cls, lo, hi) == Item("not", cls, lo, hi, <<>>)
Many == 1000000
WordBoundary == Item("wb", {}, 0, 0, <<>>)
NotAtStart == Item("notbol", {}, 0, 0, <<>>)
\* a literal string, and a literal string under re.IGNORECASE
Lit(s) == << Item("lit", {}, 1, 1, s) >>
LitIgnoreCase(s) == << Item("ilit", {}, 1, 1, s) >>
Ws1 == << Rep(SpaceSet, 1, Many) >>

InClass(item, c) == IF item.kind = "not" THEN c \notin item.cls ELSE c \in item.cls

\* the number of characters of the item's class at s[pos..], at most hi
RunLen(s, pos, item, hi) ==
  LET stops == {j \in pos..Len(s) : ~InClass(item, s[j])}
      e == IF stops = {} THEN Len(s) + 1 ELSE Min(stops)
  IN IF e - pos < hi THEN e - pos ELSE hi

IsWordAt(s, i) == i >= 1 /\ i <= Len(s) /\ s[i] \in WordSet
\* $ matches at the end of the string and before a final newline
AtEnd(s, pos) == pos = Len(s) + 1 \/ (pos = Len(s) /\ s[pos] = "\n")

\* The end (the index after the last matched character) of the match of
\* items k.. of pat at pos that the backtracking matcher finds first, 0 when
\* there is none.
RECURSIVE MatchAt(_, _, _, _, _)
MatchAt(pat, k, s, pos, dollar) ==
  IF k > Len(pat) THEN (IF dollar => AtEnd(s, pos) THEN pos ELSE 0)
  ELSE IF pat[k].kind = "wb"
       THEN (IF IsWordAt(s, pos - 1) # IsWordAt(s, pos)
             THEN MatchAt(pat, k + 1, s, pos, dollar) ELSE 0)
  ELSE IF pat[k].kind = "notbol"
       THEN (IF pos # 1 THEN MatchAt(pat, k + 1, s, pos, dollar) ELSE 0)
  ELSE IF pat[k].kind = "lit"
       THEN (IF StartsWithAt(s, pat[k].str, pos)
             THEN MatchAt(pat, k + 1, s, pos + Len(pat[k].str), dollar) ELSE 0)
  ELSE IF pat[k].kind = "ilit"
       THEN (IF pos + Len(pat[k].str) - 1 <= Len(s)
                /\ Lower(Slice(s, pos, pos + Len(pat[k].str) - 1)) = Lower(pat[k].str)
             THEN MatchAt(pat, k + 1, s, pos + Len(pat[k].str), dollar) ELSE 0)
  ELSE LET run == RunLen(s, pos, pat[k], pat[k].max)
           tries == { << n, MatchAt(pat, k + 1, s, pos + n, dollar) >> : n \in pat[k].min..run }
           ok == {t \in tries : t[2] # 0}
       IN IF ok = {} THEN 0
          ELSE (CHOOSE t \in ok : \A u \in ok : u[1] <= t[1])[2]

\* re.match(pattern, s): the pattern matches at the start of s
ReMatch(pat, dollar, s) == MatchAt(pat, 1, s, 1, dollar) # 0

\* re.search(pattern, s): the leftmost position with a match, 0 when none
ReSearch(pat, dollar, s) ==
  LET Leftmost(hits) == IF hits = {} THEN 0 ELSE Min(hits)
  IN Leftmost({p \in 1..(Len(s) + 1) : MatchAt(pat, 1, s, p, dollar) # 0})

\* re.sub(pattern, repl, s) for a pattern that matches no empty string:
\* every non-overlapping match, found from left to right, is replaced.
\* bol restricts the match to the start of the string (a leading ^).
RECURSIVE ReSubFrom(_, _, _, _, _, _)
ReSubFrom(pat, dollar, bol, repl, s, i) ==
  LET Sub(ends) ==
        LET hits == {p \in DOMAIN ends : (bol => p = 1) /\ ends[p] > p}
        IN IF hits = {} THEN Slice(s, i, Len(s))
           ELSE Slice(s, i, Min(hits) - 1) \o repl
                \o ReSubFrom(pat, dollar, bol, repl, s, ends[Min(hits)])
  IN Sub([p \in i..Len(s) |-> MatchAt(pat, 1, s, p, dollar)])
ReSub(pat, dollar, bol, repl, s) == ReSubFrom(pat, dollar, bol, repl, s, 1)

\* ------------------------------------------------------------------------
\* standardize_sponsors.py
\* ------------------------------------------------------------------------
P(pat, dollar) == [pat |-> pat, dollar |-> dollar]

\* Canonical names for major political figures, in dictionary order
CANONICAL_NAMES == <<
  [canonical |-> <<"K","a","m","a","l","a"," ","H","a","r","r","i","s"," ","f","o","r"," ","P","r","e","s","i","d","e","n","t">>,
   patterns |-> <<
     P(Lit(<<"k","a","m","a","l","a">>) \o Ws1 \o Lit(<<"h","a","r","r","i","s">>) \o Ws1 \o Lit(<<"f","o","r">>) \o Ws1 \o Lit(<<"p","r","e","s","i","d","e","n","t">>), FALSE),
     P(Lit(<<"h","a","r","r","i","s">>) \o Ws1 \o Lit(<<"f","o","r">>) \o Ws1 \o Lit(<<"p","r","e","s","i","d","e","n","t">>), FALSE),
     P(Lit(<<"k","a","m","a","l","a">>) \o Ws1 \o Lit(<<"h","a","r","r","i","s">>) \o Ws1 \o Lit(<<"d">>) \o Ws1 \o Lit(<<"p","r","e","s","i","d","e","n","t">>), FALSE),
     P(Lit(<<"h","a","r","r","i","s">>) \o Ws1 \o Lit(<<"d">>) \o Ws1 \o Lit(<<"p","r","e","s","i","d","e","n","t">>), FALSE),
     P(Lit(<<"h","a","r","r","i","s","-","d","-","p","r","e","s","i","d","e","n","t">>), FALSE),
     P(Lit(<<"k","a","m","a","l","a">>) \o Ws1 \o Lit(<<"h","a","r","r","i","s">>), TRUE) >>],
  [canonical |-> <<"J","o","e"," ","B","i","d","e","n"," ","f","o","r"," ","P","r","e","s","i","d","e","n","t">>,
   patterns |-> <<
     P(Lit(<<"j","o","e">>) \o Ws1 \o Lit(<<"b","i","d","e","n">>) \o Ws1 \o Lit(<<"f","o","r">>) \o Ws1 \o Lit(<<"p","r","e","s","i","d","e","n","t">>), FALSE),
     P(Lit(<<"b","i","d","e","n">>) \o Ws1 \o Lit(<<"f","o","r">>) \o Ws1 \o Lit(<<"p","r","e","s","i","d","e","n","t">>), FALSE),
     P(Lit(<<"j","o","s","e","p","h">>) \o Ws1 \o Lit(<<"b","i","d","e","n">>) \o Ws1 \o Lit(<<"f","o","r">>) \o Ws1 \o Lit(<<"p","r","e","s","i","d","e","n","t">>), FALSE),
     P(Lit(<<"j","o","e">>) \o Ws1 \o Lit(<<"b","i","d","e","n">>), TRUE),
     P(Lit(<<"j","o","s","e","p","h">>) \o Ws1 \o Lit(<<"b","i","d","e","n">>), TRUE),
     P(Lit(<<"b","i","d","e","n">>), TRUE) >>],
  [canonical |-> <<"D","o","n","a","l","d"," ","T","r","u","m","p"," ","f","o","r"," ","P","r","e","s","i","d","e","n","t">>,
   patterns |-> <<
     P(Lit(<<"d","o","n","a","l","d">>) \o Ws1 \o Lit(<<"t","r","u","m","p">>) \o Ws1 \o Lit(<<"f","o","r">>) \o Ws1 \o Lit(<<"p","r","e","s","i","d","e","n","t">>), FALSE),
     P(Lit(<<"d","o","n","a","l","d">>) \o Ws1 \o Lit(<<"j">>) \o << Rep({"."}, 0, 1) >> \o Ws1 \o Lit(<<"t","r","u","m","p">>) \o Ws1 \o Lit(<<"f","o","r">>) \o Ws1 \o Lit(<<"p","r","e","s","i","d","e","n","t">>), FALSE),
     P(Lit(<<"t","r","u","m","p">>) \o Ws1 \o Lit(<<"f","o","r">>) \o Ws1 \o Lit(<<"p","r","e","s","i","d","e","n","t">>), FALSE),
     P(Lit(<<"d","o","n","a","l","d">>) \o Ws1 \o Lit(<<"t","r","u","m","p">>), TRUE),
     P(Lit(<<"d","o","n","a","l","d">>) \o Ws1 \o Lit(<<"j">>) \o << Rep({"."}, 0, 1) >> \o Ws1 \o Lit(<<"t","r","u","m","p">>), TRUE) >>],
  [canonical |-> <<"B","e","r","n","i","e"," ","S","a","n","d","e","r","s"," ","f","o","r"," ","P","r","e","s","i","d","e","n","t">>,
   patterns |-> <<
     P(Lit(<<"b","e","r","n","i","e">>) \o Ws1 \o Lit(<<"s","a","n","d","e","r","s">>) \o Ws1 \o Lit(<<"f","o","r">>) \o Ws1 \o Lit(<<"p","r","e","s","i","d","e","n","t">>), FALSE),
     P(Lit(<<"s","a","n","d","e","r","s">>) \o Ws1 \o Lit(<<"f","o","r">>) \o Ws1 \o Lit(<<"p","r","e","s","i","d","e","n","t">>), FALSE),
     P(Lit(<<"b","e","r","n","i","e">>) \o Ws1 \o Lit(<<"s","a","n","d","e","r","s">>), TRUE) >>] >>

\* \s+\d{5,}[\s\-\d]*$          trailing numbers (5+ digits)
TrailingNumberRe == << Rep(SpaceSet, 1, Many), Rep(DigitSet, 5, Many),
                       Rep(SpaceSet \cup {"-"} \cup DigitSet, 0, Many) >>
\* \s+\d{1,2}[-/]\d{1,2}[-/]\d{2,4}$   dates
TrailingDateRe == << Rep(SpaceSet, 1, Many), Rep(DigitSet, 1, 2), Rep({"-", "/"}, 1, 1),
                     Rep(DigitSet, 1, 2), Rep({"-", "/"}, 1, 1), Rep(DigitSet, 2, 4) >>
\* \s+\d{6,8}$                   date-like numbers
DateLikeNumberRe == << Rep(SpaceSet, 1, Many), Rep(DigitSet, 6, 8) >>
\* \s+-\s+\d+.*$                 " - 123456..." ; the dot matches all but a newline
DashNumberRe == << Rep(SpaceSet, 1, Many), Rep({"-"}, 1, 1), Rep(SpaceSet, 1, Many),
                   Rep(DigitSet, 1, Many), RepNot({"\n"}, 0, Many) >>
\* ^premier\s+network\s+  with re.IGNORECASE
PremierNetworkRe == LitIgnoreCase(<<"p","r","e","m","i","e","r">>) \o Ws1 \o LitIgnoreCase(<<"n","e","t","w","o","r","k">>) \o Ws1

\* Clean a sponsor name by removing invoice numbers, dates, and other noise.
clean_sponsor_name(sponsor) ==
  IF ~Truthy(sponsor) THEN None
  ELSE LET c1 == ReSub(TrailingNumberRe, TRUE, FALSE, <<>>, sponsor)
           c2 == ReSub(TrailingDateRe, TRUE, FALSE, <<>>, c1)
           c3 == ReSub(DateLikeNumberRe, TRUE, FALSE, <<>>, c2)
           c4 == ReSub(DashNumberRe, TRUE, FALSE, <<>>, c3)
           c5 == ReSub(PremierNetworkRe, FALSE, TRUE, <<>>, c4)
           c6 == Join(Words(c5), <<" ">>)
       IN Strip(c6)

\* match_canonical_name without sponsor.lower()
match_canonical_name_NoLower(sponsor) ==
  LET FirstMatch(table, sponsor_lower) ==
        LET hits == {k \in 1..Len(table) :
                       \E j \in 1..Len(table[k].patterns) :
                          ReMatch(table[k].patterns[j].pat, table[k].patterns[j].dollar, sponsor_lower)}
        IN IF hits = {} THEN None ELSE table[Min(hits)].canonical
  IN IF ~Truthy(sponsor) THEN None
     ELSE FirstMatch(CANONICAL_NAMES, Strip(sponsor))

\* The canonical name of the first canonical entry one of whose patterns
\* matches the lowered, stripped sponsor; None when there is none.
match_canonical_name(sponsor) ==
  LET FirstMatch(table, sponsor_lower) ==
        LET hits == {k \in 1..Len(table) :
                       \E j \in 1..Len(table[k].patterns) :
                          ReMatch(table[k].patterns[j].pat, table[k].patterns[j].dollar, sponsor_lower)}
        IN IF hits = {} THEN None ELSE table[Min(hits)].canonical
  IN IF ~Truthy(sponsor) THEN None
     ELSE FirstMatch(CANONICAL_NAMES, Strip(Lower(sponsor)))

acronyms == {
  <<"P","A","C">>, <<"I","N","C">>, <<"L","L","C">>, <<"U","S","A">>, <<"U","S">>, <<"M","A","G","A">>, <<"N","A","A","C","P">>, <<"D","N","C">>, <<"R","N","C">>,
  <<"G","O","P">>, <<"F","E","C">>, <<"E","E","O">>, <<"N","C">>, <<"D","C">>, <<"L","A">>, <<"N","Y">>, <<"C","A">>, <<"T","X">>, <<"F","L">>,
  <<"V","A">>, <<"M","D">>, <<"G","A">>, <<"M","I">>, <<"O","H">>, <<"P","A">>, <<"A","Z">>, <<"N","V">>, <<"W","I">>, <<"M","N">>,
  <<"C","O">>, <<"O","R">>, <<"W","A">>, <<"M","A">>, <<"N","J">>, <<"C","T">>, <<"I","L">>, <<"T","N">>, <<"S","C">>,
  <<"A","C","T","U","M">>, <<"Y","E","S">>, <<"N","O">>, <<"P","R","O","P">>, <<"D","A">>, <<"C","E","O">>, <<"C","F","O">>, <<"V","P">>, <<"A","G">>,
  <<"H","D">>, <<"F","M">>, <<"A","M">>, <<"T","V">>, <<"W","L","L","D">>, <<"K","L","C","A">>, <<"F","F">>, <<"A","I">>, <<"I","T">>, <<"I","I">>, <<"I","I","I">> }

lowercase_words == {
  <<"f","o","r">>, <<"o","f">>, <<"t","h","e">>, <<"a","n","d">>, <<"o","r">>, <<"i","n">>, <<"o","n">>, <<"a","t">>, <<"t","o">>, <<"a">>, <<"a","n">>,
  <<"a","s">>, <<"b","u","t">>, <<"b","y">>, <<"n","o","r">>, <<"s","o">>, <<"y","e","t">>, <<"v","s">>, <<"v">> }

\* one word of standardize_sponsor_basic's loop; i is the 0-based index
StandardizeWord(word, i) ==
  LET word_upper == StripChars(Upper(word), {".", ",", "!", "?", ";", ":"})
  IN IF word_upper \in acronyms THEN word_upper
     ELSE IF i > 0 /\ Lower(word) \in lowercase_words THEN Lower(word)
     ELSE Title(word)

ForOffices == << <<"P","r","e","s","i","d","e","n","t">>, <<"S","e","n","a","t","e">>, <<"C","o","n","g","r","e","s","s">>, <<"G","o","v","e","r","n","o","r">>, <<"M","a","y","o","r">>, <<"C","o","u","n","c","i","l">> >>

\* re.sub(r'\bFor (President|Senate|Congress|Governor|Mayor|Council)\b', r'for \1', s):
\* the first alternative that matches at the leftmost position is taken
ForOfficeRe(k) == << WordBoundary >> \o Lit(<<"F","o","r"," ">>) \o Lit(ForOffices[k]) \o << WordBoundary >>
ForOfficeAt(s, p) == [k \in 1..Len(ForOffices) |-> MatchAt(ForOfficeRe(k), 1, s, p, FALSE)]
RECURSIVE ForOfficeFixFrom(_, _)
ForOfficeFixFrom(s, i) ==
  LET Fix(ends) ==
        LET hits == {p \in DOMAIN ends : \E k \in 1..Len(ForOffices) : ends[p][k] # 0}
            k == Min({j \in 1..Len(ForOffices) : ends[Min(hits)][j] # 0})
        IN IF hits = {} THEN Slice(s, i, Len(s))
           ELSE Slice(s, i, Min(hits) - 1) \o <<"f","o","r"," ">> \o ForOffices[k]
                \o ForOfficeFixFrom(s, ends[Min(hits)][k])
  IN Fix([p \in i..Len(s) |-> ForOfficeAt(s, p)])
ForOfficeFix(s) == ForOfficeFixFrom(s, 1)

\* Basic standardization: capitalization and common patterns.
standardize_sponsor_basic(sponsor) ==
  IF ~Truthy(sponsor) \/ Strip(sponsor) = <<>> THEN None
  ELSE LET words == Words(sponsor)
           standardized == [i \in 1..Len(words) |-> StandardizeWord(words[i], i - 1)]
           r0 == Join(standardized, <<" ">>)
           r1 == ForOfficeFix(r0)
           r2 == ReSub(<< WordBoundary >> \o Lit(<<"O","f">>) \o << WordBoundary >>, FALSE, FALSE, <<"o","f">>, r1)
           r3 == ReSub(<< NotAtStart, WordBoundary >> \o Lit(<<"T","h","e">>) \o << WordBoundary >>, FALSE, FALSE, <<"t","h","e">>, r2)
           r4 == Replace(r3, <<" ","P","a","c">>, <<" ","P","A","C">>)
           r5 == Replace(r4, <<" ","I","n","c">>, <<" ","I","N","C">>)
       IN Replace(r5, <<" ","L","l","c">>, <<" ","L","L","C">>)

\* Advanced standardization with semantic matching.
standardize_sponsor_advanced(sponsor) ==
  LET Standardized(cleaned, canonical) ==
        IF Truthy(canonical) THEN canonical ELSE standardize_sponsor_basic(cleaned)
      Matched(cleaned) ==
        IF ~Truthy(cleaned) THEN None ELSE Standardized(cleaned, match_canonical_name(cleaned))
  IN IF ~Truthy(sponsor) THEN None ELSE Matched(clean_sponsor_name(sponsor))

\* ------------------------------------------------------------------------
\* JSON values and dictionaries
\* ------------------------------------------------------------------------
\* dict.get(key): the value, None when the key is missing
Get(d, key) == IF key \in DOMAIN d THEN d[key] ELSE None
\* dict.get(key, default)
GetOr(d, key, default) == IF key \in DOMAIN d THEN d[key] ELSE default

RECURSIVE DropLeadingZeros(_)
DropLeadingZeros(ds) ==
  IF Len(ds) > 1 /\ ds[1] = "0" THEN DropLeadingZeros(Tail(ds)) ELSE ds

\* The JSON number with the decimal digits ds
IntVal(ds) == << "int" >> \o DropLeadingZeros(ds)

\* int(s): None stands for the ValueError.  Surrounding whitespace, a sign
\* and single underscores between digits are accepted.
IntParse(s) ==
  LET t == Strip(s)
      signed == Len(t) > 0 /\ t[1] \in {"+", "-"}
      body == IF signed THEN Tail(t) ELSE t
      digits == SelectSeq(body, LAMBDA c : c # "_")
      wellFormed == /\ Len(body) > 0
                    /\ \A i \in 1..Len(body) : body[i] \in DigitSet \cup {"_"}
                    /\ body[1] # "_" /\ body[Len(body)] # "_"
                    /\ \A i \in 1..(Len(body) - 1) : ~(body[i] = "_" /\ body[i+1] = "_")
      canon == DropLeadingZeros(digits)
  IN IF ~wellFormed THEN None
     ELSE IF signed /\ t[1] = "-" /\ canon # << "0" >> THEN << "int", "-" >> \o canon
     ELSE << "int" >> \o canon

\* ------------------------------------------------------------------------
\* tag_and_clean_data.py
\* ------------------------------------------------------------------------
\* /(am|fm)-profile/([A-Z0-9-]+)/  : group 2 of the leftmost match, None when none
ProfileRe(band) == Lit(<<"/">> \o band \o <<"-","p","r","o","f","i","l","e","/">>)
                   \o << Rep(UpperSet \cup DigitSet \cup {"-"}, 1, Many) >> \o Lit(<<"/">>)
ProfileCallSign(s) ==
  LET Either(am, fm) == IF am # 0 THEN am ELSE fm
      Group2(ends) ==
        LET hits == {p \in DOMAIN ends : ends[p] # 0}
        IN IF hits = {} THEN None
           ELSE Slice(s, Min(hits) + 12, ends[Min(hits)] - 2)
  IN Group2([p \in 1..(Len(s) + 1) |->
               Either(MatchAt(ProfileRe(<<"a","m">>), 1, s, p, FALSE),
                      MatchAt(ProfileRe(<<"f","m">>), 1, s, p, FALSE))])

\* Extract station call sign from URL or ID
extract_station_from_url(url, entry_id) ==
  LET Station(from_id, from_url) ==
        IF Truthy(entry_id) /\ from_id # None THEN from_id
        ELSE IF Truthy(url) /\ from_url # None THEN from_url
        ELSE None
  IN Station(ProfileCallSign(entry_id), ProfileCallSign(url))

\* \b(20[12][0-9])\b
YearRe == << WordBoundary >> \o Lit(<<"2","0">>) \o << Rep({"1", "2"}, 1, 1), Rep(DigitSet, 1, 1), WordBoundary >>

\* Extract year from file path
extract_year_from_path(path) ==
  LET Year(p) == IF p = 0 THEN None ELSE IntVal(Slice(path, p, p + 3))
  IN Year(ReSearch(YearRe, FALSE, path))

PoliticalMattersDir == <<"P","o","l","i","t","i","c","a","l"," ","M","a","t","t","e","r","s"," ","a","n","d"," ","C","o","n","t","r","o","v","e","r","s","i","a","l"," ","I","s","s","u","e","s"," ","D","i","s","c","l","o","s","u","r","e","s">>
PoliticalFilesDir == <<"P","o","l","i","t","i","c","a","l"," ","F","i","l","e","s","/">>
federal_offices == { <<"U","S"," ","H","o","u","s","e">>, <<"U","S"," ","S","e","n","a","t","e">>, <<"P","r","e","s","i","d","e","n","t">> }
category_values == { <<"F","e","d","e","r","a","l">>, <<"S","t","a","t","e">>, <<"L","o","c","a","l">>, <<"N","o","n","-","C","a","n","d","i","d","a","t","e"," ","I","s","s","u","e"," ","A","d","s">> }

\* title.split(' in ')[1].split(' on ')[0]
TitlePath(title) ==
  LET Second(parts) == parts[2]
      First(parts) == parts[1]
  IN First(Split(Second(Split(title, <<" ","i","n"," ">>)), <<" ","o","n"," ">>))

\* segments[1:] when the first segment is a 4-digit year
DropYear(segments) ==
  IF Len(segments) > 0 /\ IsDigitStr(segments[1]) /\ Len(segments[1]) = 4
  THEN Tail(segments) ELSE segments

\* the office and sponsor of a Political Files path
PoliticalFilesParse(path) ==
  LET Parse(segments) ==
        LET n == Len(segments)
        IN IF n = 0 THEN [office |-> None, sponsor |-> None]
           ELSE IF n = 1 THEN [office |-> segments[1], sponsor |-> None]
           ELSE IF n = 2
                THEN (IF segments[1] \in category_values
                      THEN (IF segments[2] \in federal_offices \/ segments[2] \in category_values
                            THEN [office |-> segments[2], sponsor |-> None]
                            ELSE [office |-> segments[1], sponsor |-> segments[2]])
                      ELSE [office |-> segments[1], sponsor |-> segments[2]])
           ELSE (IF segments[1] \in category_values
                 THEN [office |-> segments[2], sponsor |-> segments[3]]
                 ELSE [office |-> segments[n - 1], sponsor |-> segments[n]])
  IN Parse(DropYear(Split(Replace(path, PoliticalFilesDir, <<>>), <<"/">>)))

\* the sponsor of a Political Matters path
PoliticalMattersSponsor(path) ==
  LET Last(segments) == IF Len(segments) > 0 THEN segments[Len(segments)] ELSE None
      NonEmpty(all) == SelectSeq(all, LAMBDA s : s # <<>>)
  IN Last(DropYear(NonEmpty(Split(Replace(path, PoliticalMattersDir \o <<"/">>, <<>>), <<"/">>))))

\* categorize_record with the last type misspelled
categorize_record_Misspelled(item) ==
  LET Result(record_type, path, parsed) ==
        [record_type |-> record_type, path |-> path,
         office |-> parsed.office, sponsor |-> parsed.sponsor]
      OfPath(path) ==
        IF StartsWith(path, PoliticalMattersDir)
        THEN Result(<<"p","o","l","i","t","i","c","a","l","_","m","a","t","t","e","r","s">>, path,
                    [office |-> <<"P","o","l","i","t","i","c","a","l"," ","M","a","t","t","e","r","s">>, sponsor |-> PoliticalMattersSponsor(path)])
        ELSE IF StartsWith(path, PoliticalFilesDir)
        THEN Result(<<"p","o","l","i","t","i","c","a","l","_","a","d">>, path, PoliticalFilesParse(path))
        ELSE Result(<<"n","o","n","-","p","o","l","i","t","i","c","a","l">>, path, [office |-> None, sponsor |-> None])
      OfTitle(title) ==
        IF ~Contains(title, <<" ","i","n"," ">>)
        THEN Result(<<"u","n","k","n","o","w","n">>, None, [office |-> None, sponsor |-> None])
        ELSE OfPath(TitlePath(title))
  IN OfTitle(GetOr(item, "title", <<>>))

\* Categorize record as political_ad, political_matters, or non_political:
\* the tuple (record_type, path, office, sponsor)
categorize_record(item) ==
  LET Result(record_type, path, parsed) ==
        [record_type |-> record_type, path |-> path,
         office |-> parsed.office, sponsor |-> parsed.sponsor]
      OfPath(path) ==
        IF StartsWith(path, PoliticalMattersDir)
        THEN Result(<<"p","o","l","i","t","i","c","a","l","_","m","a","t","t","e","r","s">>, path,
                    [office |-> <<"P","o","l","i","t","i","c","a","l"," ","M","a","t","t","e","r","s">>, sponsor |-> PoliticalMattersSponsor(path)])
        ELSE IF StartsWith(path, PoliticalFilesDir)
        THEN Result(<<"p","o","l","i","t","i","c","a","l","_","a","d">>, path, PoliticalFilesParse(path))
        ELSE Result(<<"n","o","n","_","p","o","l","i","t","i","c","a","l">>, path, [office |-> None, sponsor |-> None])
      OfTitle(title) ==
        IF ~Contains(title, <<" ","i","n"," ">>)
        THEN Result(<<"u","n","k","n","o","w","n">>, None, [office |-> None, sponsor |-> None])
        ELSE OfPath(TitlePath(title))
  IN OfTitle(GetOr(item, "title", <<>>))

\* CleanRecord keeping the original office and sponsor of every record that
\* is no political_ad
CleanRecord_KeepOriginal(item) ==
  LET Cleaned(c, station, year) ==
        LET political == c.record_type = <<"p","o","l","i","t","i","c","a","l","_","a","d">>
            final_office == IF political THEN c.office
                            ELSE Get(item, "office")
            final_sponsor == IF political THEN c.sponsor
                             ELSE Get(item, "sponsor")
            cleaned_record == [id |-> Get(item, "id"), title |-> Get(item, "title"),
                               url |-> Get(item, "url"), updated |-> Get(item, "updated"),
                               record_type |-> c.record_type, facility_id |-> Get(item, "facility_id"),
                               station |-> station, year |-> year, office |-> final_office,
                               sponsor |-> final_sponsor, file_path |-> c.path]
            optional == {k \in {"state", "city", "station_url"} : Truthy(Get(item, k))}
        IN [k \in DOMAIN cleaned_record \cup optional |->
              IF k \in DOMAIN cleaned_record THEN cleaned_record[k] ELSE item[k]]
      Tagged(c) ==
        Cleaned(c,
                IF Truthy(Get(item, "station")) THEN Get(item, "station")
                ELSE extract_station_from_url(Get(item, "url"), Get(item, "id")),
                IF Truthy(c.path) THEN extract_year_from_path(c.path) ELSE None)
  IN Tagged(categorize_record(item))

\* one iteration of clean_data's loop: the cleaned record of an item
CleanRecord(item) ==
  LET Cleaned(c, station, year) ==
        LET political == c.record_type = <<"p","o","l","i","t","i","c","a","l","_","a","d">>
            final_office == IF political THEN c.office
                            ELSE IF c.office # None THEN c.office ELSE Get(item, "office")
            final_sponsor == IF political THEN c.sponsor
                             ELSE IF c.sponsor # None THEN c.sponsor ELSE Get(item, "sponsor")
            cleaned_record == [id |-> Get(item, "id"), title |-> Get(item, "title"),
                               url |-> Get(item, "url"), updated |-> Get(item, "updated"),
                               record_type |-> c.record_type, facility_id |-> Get(item, "facility_id"),
                               station |-> station, year |-> year, office |-> final_office,
                               sponsor |-> final_sponsor, file_path |-> c.path]
            optional == {k \in {"state", "city", "station_url"} : Truthy(Get(item, k))}
        IN [k \in DOMAIN cleaned_record \cup optional |->
              IF k \in DOMAIN cleaned_record THEN cleaned_record[k] ELSE item[k]]
      Tagged(c) ==
        Cleaned(c,
                IF Truthy(Get(item, "station")) THEN Get(item, "station")
                ELSE extract_station_from_url(Get(item, "url"), Get(item, "id")),
                IF Truthy(c.path) THEN extract_year_from_path(c.path) ELSE None)
  IN Tagged(categorize_record(item))

\* the list clean_data dumps to radio_ads_tagged.json
CleanedData(data) == [i \in 1..Len(data) |-> CleanRecord(data[i])]

\* ------------------------------------------------------------------------
\* standardize_sponsors.py: the mapping and its application
\* ------------------------------------------------------------------------
Range(f) == {f[i] : i \in DOMAIN f}

\* the records create_advanced_mapping takes sponsors from
political_records(data) ==
  SelectSeq(data, LAMBDA d :
    /\ d["record_type"] \in { <<"p","o","l","i","t","i","c","a","l","_","a","d">>, <<"p","o","l","i","t","i","c","a","l","_","m","a","t","t","e","r","s">> }
    /\ Truthy(Get(d, "sponsor"))
    /\ ~Contains(GetOr(d, "sponsor", <<>>), <<"E","n","t","i","t","y">>)
    /\ Get(d, "sponsor") # Get(d, "office"))

\* Create mapping with advanced standardization: original -> standardized,
\* for the originals whose standardized name is not empty
AdvancedMapping(data) ==
  LET Kept(standardized) ==
        [o \in {x \in DOMAIN standardized : Truthy(standardized[x])} |-> standardized[o]]
  IN Kept([o \in {d["sponsor"] : d \in Range(political_records(data))} |->
             standardize_sponsor_advanced(o)])

MappingStats(mapping) ==
  [original_count |-> Cardinality(DOMAIN mapping),
   standardized_count |-> Cardinality(Range(mapping)),
   merged_count |-> Cardinality(DOMAIN mapping) - Cardinality(Range(mapping))]

\* the standardized names with more than one original, each with its
\* originals, their record counts and the total (the report's order, by
\* falling total, is not modelled)
VariationsReport(data, mapping) ==
  LET recs == political_records(data)
      count(o) == Cardinality({i \in 1..Len(recs) : recs[i]["sponsor"] = o})
      originalsOf(n) == {o \in DOMAIN mapping : mapping[o] = n}
      RECURSIVE Sum(_)
      Sum(S) == IF S = {} THEN 0
                ELSE LET o == CHOOSE x \in S : TRUE IN count(o) + Sum(S \ {o})
  IN { [standardized |-> n,
        variations |-> { << o, count(o) >> : o \in originalsOf(n) },
        total |-> Sum(originalsOf(n))] :
       n \in {m \in Range(mapping) : Cardinality(originalsOf(m)) > 1} }

create_advanced_mapping(data) ==
  LET Result(mapping) ==
        [mapping |-> mapping,
         variations_report |-> VariationsReport(data, mapping),
         stats |-> MappingStats(mapping)]
  IN Result(AdvancedMapping(data))

\* record.copy() with one more key
WithKey(record, key, value) ==
  [k \in DOMAIN record \cup {key} |-> IF k = key THEN value ELSE record[k]]

\* StandardizedRecord with the basic standardization for every sponsor
StandardizedRecord_BasicOnly(record, mapping) ==
  LET Normalized(sponsor, basic) ==
        IF Truthy(sponsor) THEN (IF Truthy(basic) THEN basic ELSE sponsor)
        ELSE None
  IN WithKey(record, "sponsor_normalized",
             Normalized(Get(record, "sponsor"), standardize_sponsor_basic(Get(record, "sponsor"))))

\* one iteration of apply_advanced_standardization's loop
StandardizedRecord(record, mapping) ==
  LET Normalized(sponsor, basic) ==
        IF Truthy(sponsor) /\ sponsor \in DOMAIN mapping THEN mapping[sponsor]
        ELSE IF Truthy(sponsor) THEN (IF Truthy(basic) THEN basic ELSE sponsor)
        ELSE None
  IN WithKey(record, "sponsor_normalized",
             Normalized(Get(record, "sponsor"), standardize_sponsor_basic(Get(record, "sponsor"))))

\* Apply advanced standardization to all records.
apply_advanced_standardization(data, mapping) ==
  [i \in 1..Len(data) |-> StandardizedRecord(data[i], mapping)]

\* ------------------------------------------------------------------------
\* create_minimal_json.py
\* ------------------------------------------------------------------------
MinimalKeys == {"record_type", "station", "sponsor_normalized", "office",
                "year", "state", "city", "updated"}
\* MinimalRecord taking sponsor_normalized from the key sponsor
MinimalRecord_RawSponsor(record) ==
  [k \in MinimalKeys |-> IF k = "sponsor_normalized" THEN Get(record, "sponsor") ELSE Get(record, k)]
MinimalRecord(record) == [k \in MinimalKeys |-> Get(record, k)]
MinimalData(data) == [i \in 1..Len(data) |-> MinimalRecord(data[i])]

\* ------------------------------------------------------------------------
\* rss_parser.py
\* ------------------------------------------------------------------------
\* title.split('Entity ')[1].split(' ')[0] as an int; None on IndexError or ValueError
FacilityId(title) ==
  LET parts == Split(title, <<"E","n","t","i","t","y"," ">>)
  IN IF Len(parts) < 2 THEN None ELSE IntParse(Split(parts[2], <<" ">>)[1])

\* file_segments[-2] of title.split(' in ')[1].split(' on ')[0].split('/'); None on IndexError
FeedOffice(title) ==
  LET parts == Split(title, <<" ","i","n"," ">>)
  IN IF Len(parts) < 2 THEN None
     ELSE LET file_segments == Split(Split(parts[2], <<" ","o","n"," ">>)[1], <<"/">>)
          IN IF Len(file_segments) < 2 THEN None
             ELSE file_segments[Len(file_segments) - 1]

\* title.split('/')[-1]
FeedSponsor(title) == LET parts == Split(title, <<"/">>) IN parts[Len(parts)]

\* the dictionary parse_feed builds of one feed entry
EntryDict(entry, station_url, state, city) ==
  [title |-> entry.title, url |-> entry.link, id |-> entry.id, updated |-> entry.updated,
   facility_id |-> FacilityId(entry.title), office |-> FeedOffice(entry.title),
   sponsor |-> FeedSponsor(entry.title),
   station_url |-> station_url, state |-> state, city |-> city]

\* Parse the RSS feed: the entries of the feed, without those whose title
\* holds "Issues and Programs Lists"
parse_feed(entries, station_url, state, city) ==
  LET kept == SelectSeq(entries, LAMBDA e : ~Contains(e.title, <<"I","s","s","u","e","s"," ","a","n","d"," ","P","r","o","g","r","a","m","s"," ","L","i","s","t","s">>))
  IN [i \in 1..Len(kept) |-> EntryDict(kept[i], station_url, state, city)]

\* AddNewEntries comparing with the entries loaded from the file only
AddNewEntries_LoadedOnly(existing_data, entries_list) ==
  existing_data \o SelectSeq(entries_list, LAMBDA entry :
                     ~\E i \in 1..Len(existing_data) : existing_data[i]["id"] = entry["id"])

\* Add only new entries to the existing data
RECURSIVE AddNewEntries(_, _)
AddNewEntries(existing_data, entries_list) ==
  IF entries_list = <<>> THEN existing_data
  ELSE LET entry == Head(entries_list)
           known == \E i \in 1..Len(existing_data) : existing_data[i]["id"] = entry["id"]
       IN AddNewEntries(IF known THEN existing_data ELSE Append(existing_data, entry),
                        Tail(entries_list))

\* the rows of the CSV file with a station URL
UrlRows(rows) == {i \in 1..Len(rows) : Truthy(Get(rows[i], "FCC URL"))}

\* the loop of fetch_rss_entries over the rows of the CSV file; feeds[i] is
\* what the feed of row i, a row with a station URL, returns
RECURSIVE FetchRows(_, _, _, _)
FetchRows(existing_data, rows, feeds, i) ==
  IF i > Len(rows) THEN existing_data
  ELSE IF i \in UrlRows(rows)
       THEN FetchRows(AddNewEntries(existing_data,
                                    parse_feed(feeds[i], rows[i]["FCC URL"],
                                               Get(rows[i], "State"), Get(rows[i], "City"))),
                      rows, feeds, i + 1)
       ELSE FetchRows(existing_data, rows, feeds, i + 1)

\* ------------------------------------------------------------------------
\* non_political_ads_analysis.py
\* ------------------------------------------------------------------------
HasPath(item) == Contains(GetOr(item, "title", <<>>), <<" ","i","n"," ">>)
ItemPath(item) == TitlePath(GetOr(item, "title", <<>>))
IsPoliticalFile(item) == HasPath(item) /\ StartsWith(ItemPath(item), PoliticalFilesDir)
\* the top-level category of a non-political item
Category(item) == Split(ItemPath(item), <<"/">>)[1]

\* the structure dumped to non_political_ads.json (the order of the
\* categories, by falling count, is not modelled)
NonPoliticalOutput(data) ==
  LET political_ads == SelectSeq(data, IsPoliticalFile)
      others == SelectSeq(data, LAMBDA d : HasPath(d) /\ ~IsPoliticalFile(d))
      malformed == SelectSeq(data, LAMBDA d : ~HasPath(d))
      names == {Category(d) : d \in Range(others)}
      recordsOf(c) == SelectSeq(others, LAMBDA d : Category(d) = c)
      all == names \cup (IF malformed # <<>> THEN { <<"M","a","l","f","o","r","m","e","d"," ","T","i","t","l","e","s">> } ELSE {})
  IN [summary |-> [total_records |-> Len(data), political_files |-> Len(political_ads),
                   non_political_files |-> Len(others), malformed |-> Len(malformed)],
      categories |-> [c \in all |->
                        IF malformed # <<>> /\ c = <<"M","a","l","f","o","r","m","e","d"," ","T","i","t","l","e","s">>
                        THEN [count |-> Len(malformed), records |-> malformed]
                        ELSE [count |-> Len(recordsOf(c)), records |-> recordsOf(c)]]]

\* ------------------------------------------------------------------------
\* fetch_radio_stations.py, get_fcc.py, url_checker.py: the CSV stages.
\* A CSV file is its header and its rows; a row maps column names to cells.
\* ------------------------------------------------------------------------
Csv(fieldnames, rows) == [fieldnames |-> fieldnames, rows |-> rows]

\* save_to_csv of the rows [state, city, station, format] parsed from the page
StationsCsv(parsed_data) ==
  Csv(<< "State", "City", "Station", "Format" >>,
      [i \in 1..Len(parsed_data) |->
         [State |-> parsed_data[i][1], City |-> parsed_data[i][2],
          Station |-> parsed_data[i][3], Format |-> parsed_data[i][4]]])

\* full state names and their two-letter abbreviations
states_to_abbreviations == {
  << <<"A","l","a","b","a","m","a">>, <<"A","L">> >>, << <<"A","l","a","s","k","a">>, <<"A","K">> >>, << <<"A","r","i","z","o","n","a">>, <<"A","Z">> >>,
  << <<"A","r","k","a","n","s","a","s">>, <<"A","R">> >>, << <<"C","a","l","i","f","o","r","n","i","a">>, <<"C","A">> >>, << <<"C","o","l","o","r","a","d","o">>, <<"C","O">> >>,
  << <<"C","o","n","n","e","c","t","i","c","u","t">>, <<"C","T">> >>, << <<"D","e","l","a","w","a","r","e">>, <<"D","E">> >>, << <<"F","l","o","r","i","d","a">>, <<"F","L">> >>,
  << <<"G","e","o","r","g","i","a">>, <<"G","A">> >>, << <<"H","a","w","a","i","i">>, <<"H","I">> >>, << <<"I","d","a","h","o">>, <<"I","D">> >>,
  << <<"I","l","l","i","n","o","i","s">>, <<"I","L">> >>, << <<"I","n","d","i","a","n","a">>, <<"I","N">> >>, << <<"I","o","w","a">>, <<"I","A">> >>,
  << <<"K","a","n","s","a","s">>, <<"K","S">> >>, << <<"K","e","n","t","u","c","k","y">>, <<"K","Y">> >>, << <<"L","o","u","i","s","i","a","n","a">>, <<"L","A">> >>,
  << <<"M","a","i","n","e">>, <<"M","E">> >>, << <<"M","a","r","y","l","a","n","d">>, <<"M","D">> >>, << <<"M","a","s","s","a","c","h","u","s","e","t","t","s">>, <<"M","A">> >>,
  << <<"M","i","c","h","i","g","a","n">>, <<"M","I">> >>, << <<"M","i","n","n","e","s","o","t","a">>, <<"M","N">> >>, << <<"M","i","s","s","i","s","s","i","p","p","i">>, <<"M","S">> >>,
  << <<"M","i","s","s","o","u","r","i">>, <<"M","O">> >>, << <<"M","o","n","t","a","n","a">>, <<"M","T">> >>, << <<"N","e","b","r","a","s","k","a">>, <<"N","E">> >>,
  << <<"N","e","v","a","d","a">>, <<"N","V">> >>, << <<"N","e","w"," ","H","a","m","p","s","h","i","r","e">>, <<"N","H">> >>, << <<"N","e","w"," ","J","e","r","s","e","y">>, <<"N","J">> >>,
  << <<"N","e","w"," ","M","e","x","i","c","o">>, <<"N","M">> >>, << <<"N","e","w"," ","Y","o","r","k">>, <<"N","Y">> >>, << <<"N","o","r","t","h"," ","C","a","r","o","l","i","n","a">>, <<"N","C">> >>,
  << <<"N","o","r","t","h"," ","D","a","k","o","t","a">>, <<"N","D">> >>, << <<"O","h","i","o">>, <<"O","H">> >>, << <<"O","k","l","a","h","o","m","a">>, <<"O","K">> >>,
  << <<"O","r","e","g","o","n">>, <<"O","R">> >>, << <<"P","e","n","n","s","y","l","v","a","n","i","a">>, <<"P","A">> >>, << <<"R","h","o","d","e"," ","I","s","l","a","n","d">>, <<"R","I">> >>,
  << <<"S","o","u","t","h"," ","C","a","r","o","l","i","n","a">>, <<"S","C">> >>, << <<"S","o","u","t","h"," ","D","a","k","o","t","a">>, <<"S","D">> >>, << <<"T","e","n","n","e","s","s","e","e">>, <<"T","N">> >>,
  << <<"T","e","x","a","s">>, <<"T","X">> >>, << <<"U","t","a","h">>, <<"U","T">> >>, << <<"V","e","r","m","o","n","t">>, <<"V","T">> >>,
  << <<"V","i","r","g","i","n","i","a">>, <<"V","A">> >>, << <<"W","a","s","h","i","n","g","t","o","n">>, <<"W","A">> >>, << <<"W","e","s","t"," ","V","i","r","g","i","n","i","a">>, <<"W","V">> >>,
  << <<"W","i","s","c","o","n","s","i","n">>, <<"W","I">> >>, << <<"W","y","o","m","i","n","g">>, <<"W","Y">> >> }
StateAbbreviation(name) ==
  IF \E p \in states_to_abbreviations : p[1] = name
  THEN (CHOOSE p \in states_to_abbreviations : p[1] = name)[2]
  ELSE <<>>

\* Generate the FCC URL for the station's profile page, with a maximum
\* 7-character call sign.
get_service_profile_url(service_code, call_sign) ==
  LET profile_type == IF service_code = <<"A","M">> THEN <<"a","m","-","p","r","o","f","i","l","e">>
                      ELSE IF service_code = <<"F","M">> THEN <<"f","m","-","p","r","o","f","i","l","e">>
                      ELSE <<>>
      truncated_call_sign == Slice(Upper(call_sign), 1, IF Len(call_sign) < 7 THEN Len(call_sign) ELSE 7)
  IN IF profile_type # <<>>
     THEN <<"h","t","t","p","s",":","/","/","p","u","b","l","i","c","f","i","l","e","s",".","f","c","c",".","g","o","v","/">> \o profile_type \o <<"/">> \o truncated_call_sign \o <<"/","r","s","s">>
     ELSE <<>>

\* one row of process_csv_and_generate_output; response is the answer of the
\* FCC API, of which search_station_on_fcc returns the body when the status
\* is 200 and None otherwise
FccRow(row, response) ==
  LET expected_city == Upper(Strip(row["City"]))
      expected_state_abbr == StateAbbreviation(Strip(row["State"]))
      all_facilities == IF response.status_code # 200 THEN <<>>
                        ELSE response.amFacilityList \o response.fmFacilityList \o response.tvFacilityList
      found == all_facilities # <<>>
      facility == all_facilities[1]
      city_match == IF found /\ Upper(facility.communityCity) = expected_city THEN <<"Y","e","s">> ELSE <<"N","o">>
      state_match == IF found /\ facility.communityState = expected_state_abbr THEN <<"Y","e","s">> ELSE <<"N","o">>
      fcc_url == IF found THEN get_service_profile_url(facility.serviceCode, facility.callSign) ELSE <<>>
  IN [k \in DOMAIN row \cup {"City Match", "State Match", "FCC URL"} |->
        IF k = "City Match" THEN city_match
        ELSE IF k = "State Match" THEN state_match
        ELSE IF k = "FCC URL" THEN fcc_url
        ELSE row[k]]

CheckedCsv(csv, responses) ==
  Csv(csv.fieldnames \o << "City Match", "State Match", "FCC URL" >>,
      [i \in 1..Len(csv.rows) |-> FccRow(csv.rows[i], responses[i])])

\* one row of add_status_code_to_csv; status_code is the cell the csv
\* writer makes of the status (the digits, empty for None)
StatusRow(row, status_code) ==
  [k \in DOMAIN row \cup {"HTTP Status Code"} |->
     IF k = "HTTP Status Code"
     THEN (IF Truthy(Get(row, "FCC URL")) THEN status_code ELSE <<"N","/","A">>)
     ELSE row[k]]

StatusCsv(csv, statuses) ==
  Csv(csv.fieldnames \o << "HTTP Status Code" >>,
      [i \in 1..Len(csv.rows) |-> StatusRow(csv.rows[i], statuses[i])])

\* ------------------------------------------------------------------------
\* The working directory and the runs of the scripts
\* ------------------------------------------------------------------------
VARIABLES
  fs,          \* the working directory: file name -> [exists, writer, data]
  lastRun,     \* the latest run: its script, the files it read, the files it wrote
  stage,       \* how many scripts of the chain the operator has run in this pass
  names,       \* the sponsor names handed to standardize_sponsor_advanced
  normalized   \* the normalized names returned for them, <<>> before the call

vars == << fs, lastRun, stage, names, normalized >>

StationsFile == "urban_radio_stations.csv"
CheckedFile == "urban_radio_stations_checked.csv"
StatusFile == "urban_radio_stations_with_status.csv"
AdsFile == "radio_ads.json"
TaggedFile == "radio_ads_tagged.json"
StandardizedFile == "radio_ads_standardized.json"
HeatmapFile == "radio_ads_heatmap.json"
MappingFile == "sponsor_mapping.json"
SponsorReportFile == "sponsor_standardization_report.txt"
NonPoliticalReportFile == "non_political_ads_report.txt"
NonPoliticalFile == "non_political_ads.json"

Files == {StationsFile, CheckedFile, StatusFile, AdsFile, TaggedFile, StandardizedFile,
          HeatmapFile, MappingFile, SponsorReportFile, NonPoliticalReportFile, NonPoliticalFile}

\* the scripts in the order of the chain
Chain == << "fetch_radio_stations", "get_fcc", "url_checker", "rss_parser",
            "tag_and_clean_data", "standardize_sponsors", "create_minimal_json" >>

Absent == [exists |-> FALSE, writer |-> "none", data |-> <<>>]
EmptyDirectory == [f \in Files |-> Absent]
NoRun == [script |-> "none", reads |-> {}, writes |-> {}]

\* open(name, 'w') and dump: the file holds data, written by script
Write(dir, script, name, data) ==
  [dir EXCEPT ![name] = [exists |-> TRUE, writer |-> script, data |-> data]]

\* a file as a run read it: its name and who had written it
ReadOf(name) == [file |-> name, writer |-> fs[name].writer]

Run(script, reads, writes) == [script |-> script, reads |-> reads, writes |-> writes]

\* ---- what the network returns ------------------------------------------
RowA == << <<"O","h","i","o">>, <<"A","k","r","o","n">>, <<"W","A","A","A","-","F","M">>, <<"U","r","b","a","n">> >>
RowB == << <<"T","e","x","a","s">>, <<"A","u","s","t","i","n">>, <<"K","B","B","B">>, <<"U","n","k","n","o","w","n"," ","F","o","r","m","a","t">> >>
\* the station lists parsed from the page
Pages == { << RowA >>, << RowB >> }

Facility(city, state, code, sign) ==
  [communityCity |-> city, communityState |-> state, serviceCode |-> code, callSign |-> sign]
ApiResponse(status, am, fm, tv) ==
  [status_code |-> status, amFacilityList |-> am, fmFacilityList |-> fm, tvFacilityList |-> tv]
\* the answers of the FCC API: an error status, an FM station of the
\* expected city, a TV station of another city
ApiResponses == { ApiResponse(500, <<>>, <<>>, <<>>),
                  ApiResponse(200, <<>>, << Facility(<<"A","k","r","o","n">>, <<"O","H">>, <<"F","M">>, <<"w","a","a","a","-","f","m","2">>) >>, <<>>),
                  ApiResponse(200, <<>>, <<>>, << Facility(<<"D","a","l","l","a","s">>, <<"T","X">>, <<"T","V">>, <<"K","B","B","B">>) >>) }

\* the cells of the HTTP status: 200, 404, and None for a failed request
StatusCodes == { <<"2","0","0">>, <<"4","0","4">>, <<>> }

FeedEntry(title, id) ==
  [title |-> title, link |-> <<"h","t","t","p","s",":","/","/","p","u","b","l","i","c","f","i","l","e","s",".","f","c","c",".","g","o","v","/","a","p","i","/","m","a","n","a","g","e","r","/","d","o","w","n","l","o","a","d","/">> \o id,
   id |-> <<"h","t","t","p","s",":","/","/","p","u","b","l","i","c","f","i","l","e","s",".","f","c","c",".","g","o","v","/","f","m","-","p","r","o","f","i","l","e","/","W","A","A","A","-","F","M","/">> \o id, updated |-> <<"2","0","2","4","-","1","0","-","0","1">>]
BidenEntry == FeedEntry(<<"D","o","c"," ","b","y"," ","E","n","t","i","t","y"," ","0","1","2"," ","i","n"," ","P","o","l","i","t","i","c","a","l"," ","F","i","l","e","s","/","2","0","2","4","/","F","e","d","e","r","a","l","/","P","r","e","s","i","d","e","n","t","/","J","o","e"," ","B","i","d","e","n"," ","o","n"," ","1","0","/","1">>, <<"a">>)
\* another entry with the id of BidenEntry
HarrisEntry == FeedEntry(<<"D","o","c"," ","b","y"," ","E","n","t","i","t","y"," ","1","2"," ","i","n"," ","P","o","l","i","t","i","c","a","l"," ","F","i","l","e","s","/","2","0","2","4","/","F","e","d","e","r","a","l","/","P","r","e","s","i","d","e","n","t","/","K","a","m","a","l","a"," ","H","a","r","r","i","s"," ","1","2","3","4","5","6"," ","o","n"," ","1","0","/","2">>, <<"a">>)
MattersEntry == FeedEntry(<<"D","o","c"," ","b","y"," ","E","n","t","i","t","y"," ","1","2"," ","i","n"," ","P","o","l","i","t","i","c","a","l"," ","M","a","t","t","e","r","s"," ","a","n","d"," ","C","o","n","t","r","o","v","e","r","s","i","a","l"," ","I","s","s","u","e","s"," ","D","i","s","c","l","o","s","u","r","e","s","/","2","0","2","4","/","J","o","e"," ","B","i","d","e","n"," ","o","n"," ","1","0","/","3">>, <<"b">>)
EeoEntry == FeedEntry(<<"D","o","c"," ","b","y"," ","E","n","t","i","t","y"," ","x"," ","i","n"," ","E","E","O"," ","R","e","c","o","r","d","s","/","2","0","2","4"," ","o","n"," ","1","0","/","4">>, <<"c">>)
ListsEntry == FeedEntry(<<"D","o","c"," ","b","y"," ","E","n","t","i","t","y"," ","1","2"," ","i","n"," ","I","s","s","u","e","s"," ","a","n","d"," ","P","r","o","g","r","a","m","s"," ","L","i","s","t","s","/","2","0","2","4"," ","o","n"," ","1","0","/","5">>, <<"d">>)
BrokenEntry == FeedEntry(<<"D","o","c"," ","u","p","l","o","a","d","e","d">>, <<"e">>)
\* the feeds the chain is run with
PipelineFeeds == { <<>>, << BidenEntry, EeoEntry >>, << ListsEntry, BrokenEntry >> }

\* ---- the scripts --------------------------------------------------------
\* fetch_radio_stations.py: the page is fetched and parsed, the stations saved
FetchRadioStations ==
  \E page \in Pages :
    /\ fs' = Write(fs, "fetch_radio_stations", StationsFile, StationsCsv(page))
    /\ lastRun' = Run("fetch_radio_stations", {}, {StationsFile})
    /\ UNCHANGED << names, normalized >>

\* get_fcc.py: process_csv_and_generate_output
GetFcc ==
  /\ fs[StationsFile].exists
  /\ \E responses \in [1..Len(fs[StationsFile].data.rows) -> ApiResponses] :
       fs' = Write(fs, "get_fcc", CheckedFile, CheckedCsv(fs[StationsFile].data, responses))
  /\ lastRun' = Run("get_fcc", {ReadOf(StationsFile)}, {CheckedFile})
  /\ UNCHANGED << names, normalized >>

\* url_checker.py: add_status_code_to_csv
UrlChecker ==
  /\ fs[CheckedFile].exists
  /\ \E statuses \in [1..Len(fs[CheckedFile].data.rows) -> StatusCodes] :
       fs' = Write(fs, "url_checker", StatusFile, StatusCsv(fs[CheckedFile].data, statuses))
  /\ lastRun' = Run("url_checker", {ReadOf(CheckedFile)}, {StatusFile})
  /\ UNCHANGED << names, normalized >>

\* rss_parser.py: fetch_rss_entries, the feeds returning lists of feedSet
RssParser(feedSet) ==
  /\ fs[StatusFile].exists
  /\ LET existing_data == IF fs[AdsFile].exists THEN fs[AdsFile].data ELSE <<>>
         rows == fs[StatusFile].data.rows
     IN \E feeds \in [UrlRows(rows) -> feedSet] :
          fs' = Write(fs, "rss_parser", AdsFile, FetchRows(existing_data, rows, feeds, 1))
  /\ lastRun' = Run("rss_parser",
                    {ReadOf(StatusFile)} \cup (IF fs[AdsFile].exists THEN {ReadOf(AdsFile)} ELSE {}),
                    {AdsFile})
  /\ UNCHANGED << names, normalized >>

\* clean_data dumping the cleaned records over radio_ads.json
TagAndCleanData_InPlace ==
  /\ fs[AdsFile].exists
  /\ fs' = Write(fs, "tag_and_clean_data", AdsFile, CleanedData(fs[AdsFile].data))
  /\ lastRun' = Run("tag_and_clean_data", {ReadOf(AdsFile)}, {AdsFile})
  /\ UNCHANGED << names, normalized >>

\* tag_and_clean_data.py: clean_data
TagAndCleanData ==
  /\ fs[AdsFile].exists
  /\ fs' = Write(fs, "tag_and_clean_data", TaggedFile, CleanedData(fs[AdsFile].data))
  /\ lastRun' = Run("tag_and_clean_data", {ReadOf(AdsFile)}, {TaggedFile})
  /\ UNCHANGED << names, normalized >>

\* standardize_sponsors.py: main.  With an empty mapping the run ends in a
\* division by zero before the report is written.
StandardizeSponsors ==
  /\ fs[TaggedFile].exists
  /\ LET Main(data, m) ==
           LET Report(saved) ==
                 IF m.stats.original_count = 0
                 THEN /\ fs' = saved
                      /\ lastRun' = Run("standardize_sponsors", {ReadOf(TaggedFile)},
                                        {StandardizedFile, MappingFile})
                 ELSE /\ fs' = Write(saved, "standardize_sponsors", SponsorReportFile,
                                     [stats |-> m.stats, variations_report |-> m.variations_report])
                      /\ lastRun' = Run("standardize_sponsors", {ReadOf(TaggedFile)},
                                        {StandardizedFile, MappingFile, SponsorReportFile})
           IN Report(Write(Write(fs, "standardize_sponsors", StandardizedFile,
                                 apply_advanced_standardization(data, m.mapping)),
                           "standardize_sponsors", MappingFile, m.mapping))
     IN Main(fs[TaggedFile].data, create_advanced_mapping(fs[TaggedFile].data))
  /\ UNCHANGED << names, normalized >>

\* create_minimal_json loading radio_ads_tagged.json
CreateMinimalJson_FromTagged ==
  /\ fs[TaggedFile].exists
  /\ fs' = Write(fs, "create_minimal_json", HeatmapFile, MinimalData(fs[TaggedFile].data))
  /\ lastRun' = Run("create_minimal_json", {ReadOf(TaggedFile)}, {HeatmapFile})
  /\ UNCHANGED << names, normalized >>

\* create_minimal_json.py: create_minimal_json
CreateMinimalJson ==
  /\ fs[StandardizedFile].exists
  /\ fs' = Write(fs, "create_minimal_json", HeatmapFile, MinimalData(fs[StandardizedFile].data))
  /\ lastRun' = Run("create_minimal_json", {ReadOf(StandardizedFile)}, {HeatmapFile})
  /\ UNCHANGED << names, normalized >>

\* non_political_ads_analysis.py: analyze_non_political_ads.  Without
\* records the run ends in a division by zero before anything is written.
NonPoliticalAdsAnalysis ==
  /\ fs[AdsFile].exists
  /\ LET data == fs[AdsFile].data
         out == NonPoliticalOutput(data)
     IN IF Len(data) = 0
        THEN /\ fs' = fs
             /\ lastRun' = Run("non_political_ads_analysis", {ReadOf(AdsFile)}, {})
        ELSE /\ fs' = Write(Write(fs, "non_political_ads_analysis", NonPoliticalReportFile, out),
                            "non_political_ads_analysis", NonPoliticalFile, out)
             /\ lastRun' = Run("non_political_ads_analysis", {ReadOf(AdsFile)},
                               {NonPoliticalReportFile, NonPoliticalFile})
  /\ UNCHANGED << names, normalized >>

\* ---- the chain: the operator runs the scripts in order, pass after pass --
InChain(k, A) == stage = k - 1 /\ A /\ stage' = k % Len(Chain)
Aside(A) == A /\ UNCHANGED stage

Init ==
  /\ fs = EmptyDirectory
  /\ lastRun = NoRun
  /\ stage = 0
  /\ names = <<>>
  /\ normalized = <<>>

Next ==
  \/ InChain(1, FetchRadioStations)
  \/ InChain(2, GetFcc)
  \/ InChain(3, UrlChecker)
  \/ InChain(4, RssParser(PipelineFeeds))
  \/ InChain(5, TagAndCleanData)
  \/ InChain(6, StandardizeSponsors)
  \/ InChain(7, CreateMinimalJson)
  \/ Aside(NonPoliticalAdsAnalysis)

Spec == Init /\ [][Next]_vars

\* ------------------------------------------------------------------------
\* rss_parser.py run again and again on one station list
\* ------------------------------------------------------------------------
\* the number of entries a feed returns at most
MaxFeedEntries == 2

RECURSIVE SeqsUpTo(_, _)
\* the sequences over S of length at most n
SeqsUpTo(S, n) ==
  IF n = 0 THEN { <<>> }
  ELSE LET shorter == SeqsUpTo(S, n - 1)
       IN shorter \cup { Append(q, x) : q \in {t \in shorter : Len(t) = n - 1}, x \in S }

ShortEntry(title, id) == [title |-> title, link |-> <<"l","/">> \o id, id |-> id, updated |-> <<"2","0","2","4">>]
\* two entries with one id, and a third entry
RssEntries == { ShortEntry(<<"D"," ","b","y"," ","E","n","t","i","t","y"," ","7"," ","i","n"," ","P","/","Q","/","R"," ","o","n"," ","1">>, <<"a">>),
                ShortEntry(<<"D"," ","i","n"," ","E"," ","o","n"," ","2">>, <<"a">>),
                ShortEntry(<<"D"," ","i","n"," ","P","/","L"," ","o","n"," ","3">>, <<"b">>) }
RssFeeds == SeqsUpTo(RssEntries, MaxFeedEntries)

FmAnswer(sign) == ApiResponse(200, <<>>, << Facility(<<"A","k","r","o","n">>, <<"O","H">>, <<"F","M">>, sign) >>, <<>>)
\* a station list of two stations with a feed and one without
RssStations ==
  StatusCsv(CheckedCsv(StationsCsv(<< RowA, RowB, RowB >>),
                       << FmAnswer(<<"W","A","A","A">>), FmAnswer(<<"K","B","B","B">>), ApiResponse(500, <<>>, <<>>, <<>>) >>),
            << <<"2","0","0">>, <<"2","0","0">>, <<>> >>)

OldEntry(id) == EntryDict(ShortEntry(<<"D"," ","i","n"," ","P","/","S"," ","o","n"," ","0">>, id), <<"u">>, <<"O","h","i","o">>, <<"A","k","r","o","n">>)
\* what radio_ads.json holds before the first run, when it exists: entries
\* with pairwise distinct ids
ExistingAds == { <<>>, << OldEntry(<<"a">>) >>, << OldEntry(<<"z">>) >>, << OldEntry(<<"b">>) >>,
                 << OldEntry(<<"z">>), OldEntry(<<"b">>) >>, << OldEntry(<<"a">>), OldEntry(<<"z">>) >>,
                 << OldEntry(<<"z">>), OldEntry(<<"y">>) >>, << OldEntry(<<"b">>), OldEntry(<<"a">>) >> }

InitRss ==
  /\ \/ fs = Write(EmptyDirectory, "url_checker", StatusFile, RssStations)
     \/ \E ads \in ExistingAds :
          fs = Write(Write(EmptyDirectory, "url_checker", StatusFile, RssStations),
                     "rss_parser", AdsFile, ads)
  /\ lastRun = NoRun
  /\ stage = 0
  /\ names = <<>>
  /\ normalized = <<>>

NextRss == Aside(RssParser(RssFeeds))

SpecRss == InitRss /\ [][NextRss]_vars

\* ------------------------------------------------------------------------
\* tag_and_clean_data.py run on a given radio_ads.json
\* ------------------------------------------------------------------------
\* the number of path segments after the directory at most
MaxSegments == 3

TagRoots == { PoliticalFilesDir, PoliticalMattersDir \o <<"/">>, <<"E","E","O"," ","R","e","c","o","r","d","s","/">> }
SegmentValues == { <<"2","0","2","4">>, <<"F","e","d","e","r","a","l">>, <<"U","S"," ","H","o","u","s","e">>, <<"J","o","e"," ","B","i","d","e","n">>, <<"P","o","l","i","t","i","c","a","l"," ","F","i","l","e","s">> }
TagTitle(root, segments) == <<"D","o","c"," ","i","n"," ">> \o root \o Join(segments, <<"/">>) \o <<" ","o","n"," ","1","/","2">>
TagTitles == { TagTitle(r, s) : r \in TagRoots, s \in SeqsUpTo(SegmentValues, MaxSegments) }
               \cup { <<"D","o","c"," ","u","p","l","o","a","d","e","d">> }
\* an item as rss_parser writes it, and an item with a title only
FullItem(title) ==
  [title |-> title, url |-> <<"l","/","a">>, id |-> <<"h","t","t","p","s",":","/","/","p","u","b","l","i","c","f","i","l","e","s",".","f","c","c",".","g","o","v","/","f","m","-","p","r","o","f","i","l","e","/","W","A","A","A","/","a">>,
   updated |-> <<"2","0","2","4">>, facility_id |-> IntVal(<<"7">>), office |-> <<"O","l","d"," ","O","f","f","i","c","e">>,
   sponsor |-> <<"O","l","d"," ","S","p","o","n","s","o","r">>, station_url |-> <<"u">>, state |-> <<"O","h","i","o">>, city |-> <<>>]
BareItem(title) == [title |-> title]
FewTitles == { TagTitle(PoliticalFilesDir, << <<"2","0","2","4">> >>),
               TagTitle(PoliticalMattersDir \o <<"/">>, <<>>),
               <<"D","o","c"," ","u","p","l","o","a","d","e","d">> }
TagInputs == { <<>> } \cup { << FullItem(t) >> : t \in TagTitles }
                      \cup { << BareItem(t) >> : t \in TagTitles }
                      \cup { << FullItem(t), BareItem(u) >> : t \in FewTitles, u \in FewTitles }
                      \cup { << FullItem(t), FullItem(u) >> : t \in FewTitles, u \in FewTitles }

InitTag ==
  /\ \E data \in TagInputs : fs = Write(EmptyDirectory, "rss_parser", AdsFile, data)
  /\ lastRun = NoRun
  /\ stage = 0
  /\ names = <<>>
  /\ normalized = <<>>

NextTag == Aside(TagAndCleanData)

SpecTag == InitTag /\ [][NextTag]_vars

\* ------------------------------------------------------------------------
\* standardize_sponsors.py run on a given radio_ads_tagged.json
\* ------------------------------------------------------------------------
\* the number of records of the tagged file at most
MaxTagged == 2

TaggedRecord(type, sponsor) == [record_type |-> type, sponsor |-> sponsor, office |-> <<"F","e","d","e","r","a","l">>]
TaggedRecords ==
  { TaggedRecord(t, s) : t \in { <<"p","o","l","i","t","i","c","a","l","_","a","d">>, <<"p","o","l","i","t","i","c","a","l","_","m","a","t","t","e","r","s">>, <<"n","o","n","_","p","o","l","i","t","i","c","a","l">> },
                         s \in { <<"K","a","m","a","l","a"," ","H","a","r","r","i","s">>, <<" ","1","2","3","4","5">>, <<"E","n","t","i","t","y"," ","5">>, <<"F","e","d","e","r","a","l">>, None } }
StandardizeInputs == SeqsUpTo(TaggedRecords, MaxTagged)

InitStandardize ==
  /\ \E data \in StandardizeInputs : fs = Write(EmptyDirectory, "tag_and_clean_data", TaggedFile, data)
  /\ lastRun = NoRun
  /\ stage = 0
  /\ names = <<>>
  /\ normalized = <<>>

NextStandardize == Aside(StandardizeSponsors)

SpecStandardize == InitStandardize /\ [][NextStandardize]_vars

\* ------------------------------------------------------------------------
\* create_minimal_json.py run on a given radio_ads_standardized.json
\* ------------------------------------------------------------------------
\* the number of records of the standardized file at most
MaxStandardized == 3

WholeRecord ==
  WithKey(CleanRecord(FullItem(TagTitle(PoliticalFilesDir, << <<"2","0","2","4">>, <<"F","e","d","e","r","a","l">>, <<"J","o","e"," ","B","i","d","e","n">> >>))),
          "sponsor_normalized", <<"J","o","e"," ","B","i","d","e","n"," ","f","o","r"," ","P","r","e","s","i","d","e","n","t">>)
StandardizedRecords ==
  { WholeRecord,
    WithKey(CleanRecord(BareItem(<<"D","o","c"," ","u","p","l","o","a","d","e","d">>)), "sponsor_normalized", None),
    [record_type |-> <<"n","o","n","_","p","o","l","i","t","i","c","a","l">>, city |-> <<"A","k","r","o","n">>],
    [id |-> <<"a">>, sponsor |-> <<"O","l","d"," ","S","p","o","n","s","o","r">>] }
MinimalInputs == SeqsUpTo(StandardizedRecords, MaxStandardized)

InitMinimal ==
  /\ \E data \in MinimalInputs :
       fs = Write(EmptyDirectory, "standardize_sponsors", StandardizedFile, data)
  /\ lastRun = NoRun
  /\ stage = 0
  /\ names = <<>>
  /\ normalized = <<>>

NextMinimal == Aside(CreateMinimalJson)

SpecMinimal == InitMinimal /\ [][NextMinimal]_vars

\* ------------------------------------------------------------------------
\* standardize_sponsor_advanced applied to sponsor names
\* ------------------------------------------------------------------------
\* the number of words of a sponsor name at most
MaxWords == 2

Vocabulary == { <<"h","a","r","r","i","s">>, <<"K","a","m","a","l","a">>, <<"b","i","d","e","n">>, <<"f","o","r">>, <<"P","r","e","s","i","d","e","n","t">>, <<"p","a","c">>, <<"t","h","e">>, <<"1","-","2","-","2","4">> }
WordLists == SeqsUpTo(Vocabulary, MaxWords) \ { <<>> }
\* the names: words joined by blanks, with or without a blank at the end
BaseNames == { Join(w, <<" ">>) \o t : w \in WordLists, t \in { <<>>, <<" ">> } }
\* str.swapcase()
SwapCase(s) == [i \in 1..Len(s) |-> IF s[i] \in UpperSet THEN LowerCh(s[i]) ELSE UpperCh(s[i])]
\* a name with a variant of it: in another case, or with a number appended
Variants(s) == { Upper(s), Title(s), SwapCase(s), s \o <<" ","1","2","3","4","5">>, s \o <<" "," ","1","2","3","4","5","6","7">> }
NamePairs ==
  UNION { { << s, v >> : v \in Variants(s) } : s \in BaseNames }
  \cup { << <<"H","a","r","r","i","s">>, <<"K","a","m","a","l","a"," ","H","a","r","r","i","s">> >>, << <<"B","i","d","e","n">>, <<"J","o","e"," ","B","i","d","e","n">> >> }

InitSponsor ==
  /\ fs = EmptyDirectory
  /\ lastRun = NoRun
  /\ stage = 0
  /\ names \in NamePairs
  /\ normalized = <<>>

\* the caller applies standardize_sponsor_advanced to each name
Standardize ==
  /\ normalized = <<>>
  /\ normalized' = [i \in 1..Len(names) |-> standardize_sponsor_advanced(names[i])]
  /\ UNCHANGED << fs, lastRun, stage, names >>

NextSponsor == Standardize

SpecSponsor == InitSponsor /\ [][NextSponsor]_vars

\* ------------------------------------------------------------------------
\* The claims
\* ------------------------------------------------------------------------
\* the records of a file, <<>> while it does not exist
DataOf(name) == IF fs[name].exists THEN fs[name].data ELSE <<>>
TypeOf(record) == Get(record, "record_type")

FilesRead(run) == { r.file : r \in run.reads }

WritesAllowed(run, before, after) ==
  CASE run.script = "fetch_radio_stations" -> run.writes = {StationsFile}
    [] run.script = "get_fcc" -> run.writes = {CheckedFile}
    [] run.script = "url_checker" -> run.writes = {StatusFile}
    [] run.script = "rss_parser" -> run.writes = {AdsFile}
    [] run.script = "tag_and_clean_data" -> run.writes = {TaggedFile}
    [] run.script = "create_minimal_json" -> run.writes = {HeatmapFile}
    [] run.script = "standardize_sponsors" ->
         IF DOMAIN after[MappingFile].data = {}
         THEN run.writes = {StandardizedFile, MappingFile}
         ELSE run.writes = {StandardizedFile, MappingFile, SponsorReportFile}
    [] run.script = "non_political_ads_analysis" ->
         IF before[AdsFile].data = <<>>
         THEN run.writes = {}
         ELSE run.writes = {NonPoliticalReportFile, NonPoliticalFile}
ReadsAllowed(run, before) ==
  CASE run.script = "fetch_radio_stations" -> FilesRead(run) = {}
    [] run.script = "get_fcc" -> FilesRead(run) = {StationsFile}
    [] run.script = "url_checker" -> FilesRead(run) = {CheckedFile}
    [] run.script = "rss_parser" ->
         FilesRead(run) = {StatusFile} \cup (IF before[AdsFile].exists THEN {AdsFile} ELSE {})
    [] run.script = "tag_and_clean_data" -> FilesRead(run) = {AdsFile}
    [] run.script = "create_minimal_json" -> FilesRead(run) = {StandardizedFile}
    [] run.script = "standardize_sponsors" -> FilesRead(run) = {TaggedFile}
    [] run.script = "non_political_ads_analysis" -> FilesRead(run) = {AdsFile}
\* the files a step creates or changes
Changed(before, after) ==
  { f \in Files : \/ after[f].exists # before[f].exists
                  \/ after[f].writer # before[f].writer
                  \/ after[f].data # before[f].data }

ChainOutput == << StationsFile, CheckedFile, StatusFile, AdsFile, TaggedFile,
                  StandardizedFile, HeatmapFile >>
\* the output of the script before the k-th, as the k-th reads it
PredecessorOutput(k) ==
  IF k = 1 THEN {} ELSE { [file |-> ChainOutput[k - 1], writer |-> Chain[k - 1]] }

\* C3 as stated: what a script of the chain reads is exactly the output
\* file of the script before it, written by that script.
C3_ReadsOnlyPredecessorOutput ==
  \A k \in 1..Len(Chain) :
    lastRun.script = Chain[k] => lastRun.reads = PredecessorOutput(k)

\* C3 amended: run in the order of the chain, pass after pass, each script
\* reads the output file of the script before it, written by that script;
\* the one other file read is radio_ads.json, which rss_parser reads when
\* an earlier run of rss_parser has written it.  No script reads a file
\* nobody has written.
C3_ReadsPredecessorOutputAndOwn ==
  \A k \in 1..Len(Chain) :
    lastRun.script = Chain[k] =>
      /\ PredecessorOutput(k) \subseteq lastRun.reads
      /\ lastRun.reads \ PredecessorOutput(k) \subseteq
           (IF Chain[k] = "rss_parser" THEN { [file |-> AdsFile, writer |-> "rss_parser"] } ELSE {})

\* C3's case: in a second pass rss_parser has read its own radio_ads.json
\* beside the station list of url_checker
C3_OwnOutputRead ==
  /\ lastRun.script = "rss_parser"
  /\ lastRun.reads = { [file |-> StatusFile, writer |-> "url_checker"],
                       [file |-> AdsFile, writer |-> "rss_parser"] }

\* ---- C4 -----------------------------------------------------------------
\* C4: after any sequence of runs of fetch_rss_entries, from a missing
\* radio_ads.json or one with pairwise distinct ids, no two entries of
\* radio_ads.json have the same id.
C4_DistinctIds ==
  \A i, j \in 1..Len(DataOf(AdsFile)) :
    i # j => DataOf(AdsFile)[i]["id"] # DataOf(AdsFile)[j]["id"]

\* C4's case: a run has read a radio_ads.json holding the id a, has kept
\* that entry and has added an entry of a feed with another id
C4_OldAndNewEntries ==
  /\ lastRun.script = "rss_parser"
  /\ \E r \in lastRun.reads : r.file = AdsFile
  /\ \E i, j \in 1..Len(DataOf(AdsFile)) :
       /\ DataOf(AdsFile)[i] = OldEntry(<<"a">>)
       /\ DataOf(AdsFile)[j]["id"] = <<"b">>
       /\ DataOf(AdsFile)[j]["title"] = <<"D"," ","i","n"," ","P","/","L"," ","o","n"," ","3">>

\* ---- C5 -----------------------------------------------------------------
\* C5 as stated: 'Harris' and 'Kamala Harris' get the same normalized
\* name, and so do 'Biden' and 'Joe Biden'.
C5_SemanticDuplicatesMerged ==
  /\ normalized # <<>>
  /\ names \in { << <<"H","a","r","r","i","s">>, <<"K","a","m","a","l","a"," ","H","a","r","r","i","s">> >>, << <<"B","i","d","e","n">>, <<"J","o","e"," ","B","i","d","e","n">> >> }
  => normalized[1] = normalized[2]

\* ---- C6 -----------------------------------------------------------------
\* C6: two non-empty sponsor strings that differ only in letter case get
\* the same normalized name.
C6_CaseInsensitive ==
  /\ normalized # <<>>
  /\ names[1] # <<>>
  /\ Lower(names[1]) = Lower(names[2])
  => normalized[1] = normalized[2]

\* C6's case: two names differing in case only have been normalized, to a
\* canonical name
C6_CaseVariantsNormalized ==
  /\ normalized # <<>>
  /\ names[1] # names[2]
  /\ Lower(names[1]) = Lower(names[2])
  /\ normalized[1] = <<"J","o","e"," ","B","i","d","e","n"," ","f","o","r"," ","P","r","e","s","i","d","e","n","t">>

\* ---- C7 -----------------------------------------------------------------
\* t is s with whitespace and a number of five or more digits appended
NumberAppended(s, t) ==
  /\ Len(t) >= Len(s) + 6
  /\ SubSeq(t, 1, Len(s)) = s
  /\ \E k \in 1..(Len(t) - Len(s) - 5) :
       /\ \A i \in 1..k : t[Len(s) + i] \in SpaceSet
       /\ \A i \in (k + 1)..(Len(t) - Len(s)) : t[Len(s) + i] \in DigitSet

\* C7 as stated: a non-empty sponsor name and the name with whitespace and
\* a number of five or more digits appended get the same normalized name.
C7_AppendedNumberIgnored ==
  /\ normalized # <<>>
  /\ names[1] # <<>>
  /\ NumberAppended(names[1], names[2])
  => normalized[1] = normalized[2]

\* The part of C7 the code keeps: the same, for the names that do not end
\* in whitespace.
C7_AppendedNumberIgnoredAfterNonBlank ==
  /\ normalized # <<>>
  /\ names[1] # <<>>
  /\ names[1][Len(names[1])] \notin SpaceSet
  /\ NumberAppended(names[1], names[2])
  => normalized[1] = normalized[2]

InMapping(data, sponsor) ==
  /\ Truthy(standardize_sponsor_advanced(sponsor))
  /\ \E j \in 1..Len(data) :
       /\ Get(data[j], "sponsor") = sponsor
       /\ TypeOf(data[j]) \in { <<"p","o","l","i","t","i","c","a","l","_","a","d">>, <<"p","o","l","i","t","i","c","a","l","_","m","a","t","t","e","r","s">> }
       /\ ~Contains(sponsor, <<"E","n","t","i","t","y">>)
       /\ sponsor # Get(data[j], "office")

C9_EightKeysInOrder ==
  fs[HeatmapFile].exists =>
    /\ Len(fs[HeatmapFile].data) = Len(fs[StandardizedFile].data)
    /\ \A i \in 1..Len(fs[HeatmapFile].data) :
         /\ DOMAIN fs[HeatmapFile].data[i] =
              {"record_type", "station", "sponsor_normalized", "office", "year", "state",
               "city", "updated"}
         /\ \A k \in DOMAIN fs[HeatmapFile].data[i] :
              fs[HeatmapFile].data[i][k] =
                (IF k \in DOMAIN fs[StandardizedFile].data[i]
                 THEN fs[StandardizedFile].data[i][k] ELSE None)

\* C9's case: a record with all the keys and more has been written before
\* a record that lacks most of them
C9_WholeAndPartialWritten ==
  /\ fs[HeatmapFile].exists
  /\ Len(fs[HeatmapFile].data) >= 2
  /\ fs[StandardizedFile].data[1] = WholeRecord
  /\ fs[HeatmapFile].data[1]["sponsor_normalized"] = <<"J","o","e"," ","B","i","d","e","n"," ","f","o","r"," ","P","r","e","s","i","d","e","n","t">>
  /\ "id" \in DOMAIN fs[StandardizedFile].data[2]
  /\ "office" \notin DOMAIN fs[StandardizedFile].data[2]
  /\ fs[HeatmapFile].data[2]["office"] = None

SegmentRule(segments) ==
  LET n == Len(segments)
      categories == { <<"F","e","d","e","r","a","l">>, <<"S","t","a","t","e">>, <<"L","o","c","a","l">>, <<"N","o","n","-","C","a","n","d","i","d","a","t","e"," ","I","s","s","u","e"," ","A","d","s">> }
      offices == { <<"U","S"," ","H","o","u","s","e">>, <<"U","S"," ","S","e","n","a","t","e">>, <<"P","r","e","s","i","d","e","n","t">> }
  IN CASE n = 0 -> [office |-> None, sponsor |-> None]
       [] n = 1 -> [office |-> segments[1], sponsor |-> None]
       [] n = 2 /\ segments[1] \in categories /\ segments[2] \in offices \cup categories ->
            [office |-> segments[2], sponsor |-> None]
       [] n = 2 /\ ~(segments[1] \in categories /\ segments[2] \in offices \cup categories) ->
            [office |-> segments[1], sponsor |-> segments[2]]
       [] n >= 3 /\ segments[1] \in categories ->
            [office |-> segments[2], sponsor |-> segments[3]]
       [] n >= 3 /\ segments[1] \notin categories ->
            [office |-> segments[n - 1], sponsor |-> segments[n]]

\* the office and sponsor of a written record are those of the rule
FollowsRule(out, segments) ==
  /\ out["office"] = SegmentRule(segments).office
  /\ out["sponsor"] = SegmentRule(segments).sponsor

\* the path after its first 'Political Files/'
AfterPrefix(path) == Slice(path, Len(PoliticalFilesDir) + 1, Len(path))

\* C11 as stated: the office and sponsor of a political_ad record follow the
\* rule of the segments, the segments being the '/'-separated parts of the
\* path after 'Political Files/', without a leading 4-digit segment.
C11_SegmentsAfterPrefix ==
  \A i \in 1..Len(DataOf(TaggedFile)) :
    TypeOf(fs[TaggedFile].data[i]) = <<"p","o","l","i","t","i","c","a","l","_","a","d">> =>
      FollowsRule(fs[TaggedFile].data[i],
                  DropYear(Split(AfterPrefix(fs[TaggedFile].data[i]["file_path"]), <<"/">>)))

\* C11 for the segments the code takes: the office and sponsor of a
\* political_ad record follow the rule of the segments, the segments being
\* the '/'-separated parts of the path with every 'Political Files/'
\* removed from it, without a leading 4-digit segment.
C11_SegmentsAfterEveryRemoval ==
  \A i \in 1..Len(DataOf(TaggedFile)) :
    TypeOf(fs[TaggedFile].data[i]) = <<"p","o","l","i","t","i","c","a","l","_","a","d">> =>
      FollowsRule(fs[TaggedFile].data[i],
                  DropYear(Split(Replace(fs[TaggedFile].data[i]["file_path"], PoliticalFilesDir, <<>>),
                                 <<"/">>)))

\* C11's case: a political_ad record is written whose path holds a second
\* 'Political Files/' and has three segments after the first
C11_InnerDirectoryWritten ==
  /\ fs[TaggedFile].exists
  /\ \E i \in 1..Len(fs[TaggedFile].data) :
       /\ TypeOf(fs[TaggedFile].data[i]) = <<"p","o","l","i","t","i","c","a","l","_","a","d">>
       /\ Contains(AfterPrefix(fs[TaggedFile].data[i]["file_path"]), PoliticalFilesDir)
       /\ Len(Split(AfterPrefix(fs[TaggedFile].data[i]["file_path"]), <<"/">>)) = 3
====
